---- MODULE Spec2Model ----
(***************************************************************************)
(* Multi-agent RAG gateway: the agent registry (AgentManager), the agents  *)
(* (RAGAgent) with their per-directory vector-store collections, and the   *)
(* service layer (MultiAgentQAService) that drives them.                   *)
(*                                                                         *)
(* The vector store, the embedding provider and the language model are     *)
(* external services.  A collection is modelled as the set of its entries  *)
(* (id, document); adding with explicit ids replaces entries that carry    *)
(* the same id and inserts the others (upsert).                            *)
(***************************************************************************)
EXTENDS Integers, Sequences, FiniteSets, TLC

VARIABLES
    agents,      \* AgentManager.agents: insertion-ordered dict, as a sequence of [key, agent]
    configFile,  \* agents_config.json: [exists, configs]
    dirs,        \* the storage directories that exist on disk
    store,       \* per storage directory, the entries of its collection
    result,      \* what the last service call returned (or that it raised)
    response,    \* the HTTP response to the last request
    invocations, \* the retriever and language-model calls of the last service call
    inflight,    \* per client, the request the server holds and how far it is
    tempFiles    \* the files of the temporary directory that uploads have staged

vars == <<agents, configFile, dirs, store, result, response, invocations, inflight,
          tempFiles>>

----------------------------------------------------------------------------
(* Bounds and input sets *)

\* retriever k (search_kwargs)
K == 5

\* small batches hold 0..SmallBatch documents
SmallBatch == 1

\* the big batch holds one document more than one retrieval returns
BigBatch == K + 1

BatchSizes == (0..SmallBatch) \cup {BigBatch}

\* the ids requests use
AgentIds == {"restaurant", "finance"}

\* an id that is never registered
UnknownId == "nonexistent"

RequestIds == AgentIds \cup {UnknownId}

\* what distinguishes one ingestion request's documents from another's
Tags == {"t1", "t2"}

Questions == {"q"}

DefaultModel == "llama3.2:1b"

\* the bodies of POST /agents/create the model draws from
CreateRequests ==
    { [agent_id |-> a, name |-> "Expert", description |-> "first",
       system_prompt |-> "You are an expert", model |-> DefaultModel] : a \in AgentIds }
    \cup
    { [agent_id |-> a, name |-> "Advisor", description |-> "second",
       system_prompt |-> "You are an advisor", model |-> "m1"] : a \in AgentIds }

----------------------------------------------------------------------------
(* Values *)

None == [none |-> TRUE]

Max(a, b) == IF a >= b THEN a ELSE b

Min(a, b) == IF a <= b THEN a ELSE b

Range(s) == { s[i] : i \in 1..Len(s) }

\* an Optional[str] argument: <<>> for None, <<s>> for the string s
NoStr == <<>>

Str(s) == <<s>>

\* AgentConfig.__init__: collection_name falls back to agent_<agent_id>
\* when it is None or empty ("collection_name or ...")
AgentConfig(agent_id, name, description, system_prompt, model, collection_name) ==
    [ agent_id        |-> agent_id,
      name            |-> name,
      description     |-> description,
      system_prompt   |-> system_prompt,
      model           |-> model,
      collection_name |-> IF collection_name = NoStr \/ collection_name = Str("")
                          THEN "agent_" \o agent_id
                          ELSE collection_name[1] ]

DbLocation(agent_id) == "./agents_db/" \o agent_id

\* the RAGAgent object: its config and the directory its collection lives in
RAGAgent(config) ==
    [ config |-> config, db_location |-> DbLocation(config.agent_id) ]

\* a Document
Document(page_content, metadata) ==
    [ page_content |-> page_content, metadata |-> metadata ]

EmptyMeta == <<>>

----------------------------------------------------------------------------
(* The insertion-ordered dict self.agents *)

HasKey(d, k) == \E i \in 1..Len(d) : d[i].key = k

Keys(d) == [ i \in 1..Len(d) |-> d[i].key ]

Values(d) == [ i \in 1..Len(d) |-> d[i].agent ]

\* a lookup by subscript, self.agents[agent_id], which raises for a key
\* that is not there
DictGetItem(d, k) ==
    IF HasKey(d, k)
    THEN (CHOOSE e \in Range(d) : e.key = k).agent
    ELSE [ raised |-> "KeyError" ]

\* d.get(k)
DictGet(d, k) ==
    IF HasKey(d, k)
    THEN d[CHOOSE i \in 1..Len(d) : d[i].key = k].agent
    ELSE None

\* an assignment that adds an entry even when the key is there already
DictSetAppend(d, k, v) == Append(d, [key |-> k, agent |-> v])

\* d[k] = v: an existing key keeps its position
DictSet(d, k, v) ==
    IF HasKey(d, k)
    THEN [ i \in 1..Len(d) |-> IF d[i].key = k THEN [key |-> k, agent |-> v] ELSE d[i] ]
    ELSE Append(d, [key |-> k, agent |-> v])

DictDelTest(e, k) == e.key # k

\* del d[k]
DictDel(d, k) == SelectSeq(d, LAMBDA e : DictDelTest(e, k))

----------------------------------------------------------------------------
(* The vector store *)

\* add_documents that replaces the collection by the batch
StoreReplaceDocuments(col, documents, ids) ==
    { [id |-> ids[i], document |-> documents[i]] : i \in 1..Len(documents) }

\* add_documents that keeps what is stored under an id it is given again
StoreAppendDocuments(col, documents, ids) ==
    col \cup { [id |-> ids[i], document |-> documents[i]] : i \in 1..Len(documents) }

\* add_documents(documents, ids): upsert by id
StoreAddDocuments(col, documents, ids) ==
    { e \in col : e.id \notin Range(ids) }
    \cup { [id |-> ids[i], document |-> documents[i]] : i \in 1..Len(documents) }

Count(col) == Cardinality(col)

\* a search that ignores k and returns the whole collection
SearchResultsAll(col, k) == {col}

\* the results a similarity search for k documents can return: k entries of
\* the collection, or all of them when it holds fewer
SearchResults(col, k) ==
    { hits \in SUBSET col : Cardinality(hits) = Min(k, Cardinality(col)) }

RECURSIVE SetToSeq(_)
\* one listing of a finite set
SetToSeq(S) ==
    IF S = {} THEN <<>>
    ELSE LET x == CHOOSE y \in S : TRUE IN <<x>> \o SetToSeq(S \ {x})

----------------------------------------------------------------------------
(* RAGAgent *)

\* RAGAgent.__init__, on the disk: os.makedirs(db_location, exist_ok=True);
\* Chroma(persist_directory=db_location) opens the collection found there
\* and creates an empty one when there is none
InitDirs(ds, config) == ds \cup {DbLocation(config.agent_id)}

\* RAGAgent.add_documents: ids are <agent_id>_<i>, i counted from 0 in
\* every batch
DocumentIds(agent, documents) ==
    [ i \in 1..Len(documents) |-> agent.config.agent_id \o "_" \o ToString(i - 1) ]

AddDocuments(st, agent, documents) ==
    [ st EXCEPT ![agent.db_location] =
        StoreAddDocuments(@, documents, DocumentIds(agent, documents)) ]

\* the {"content", "metadata"} dicts get_relevant_documents and
\* answer_question build from the retrieved documents
DocDicts(docs) ==
    [ i \in 1..Len(docs) |->
        [ content |-> docs[i].page_content, metadata |-> docs[i].metadata ] ]

\* RAGAgent.get_relevant_documents for one result of the retriever
RelevantDocuments(hits) ==
    DocDicts([ i \in 1..Len(SetToSeq(hits)) |-> SetToSeq(hits)[i].document ])

\* add_csv_documents that puts the title cell before the content cell also
\* when both are the same column
CsvDocumentsAlwaysTitle(df, title_col, content_col, metadata_cols) ==
    [ i \in 1..Len(df) |->
        Document(
            df[i][title_col] \o " " \o df[i][content_col],
            [ col \in Range(metadata_cols) \cap DOMAIN df[i] |-> df[i][col] ]) ]

\* RAGAgent.add_csv_documents, the documents built from the rows of the
\* table: "<title> <content>" (the two cells, in order), the content cell
\* alone when both columns are the same; metadata holds the requested
\* columns the row has
CsvDocuments(df, title_col, content_col, metadata_cols) ==
    [ i \in 1..Len(df) |->
        Document(
            IF title_col # content_col
            THEN df[i][title_col] \o " " \o df[i][content_col]
            ELSE df[i][content_col],
            [ col \in Range(metadata_cols) \cap DOMAIN df[i] |-> df[i][col] ]) ]

----------------------------------------------------------------------------
(* AgentManager *)

\* the record save_agents_config writes for one agent
ConfigRecord(config) ==
    [ agent_id        |-> config.agent_id,
      name            |-> config.name,
      description     |-> config.description,
      system_prompt   |-> config.system_prompt,
      model           |-> config.model,
      collection_name |-> config.collection_name ]

\* AgentManager.save_agents_config: the whole file, one record per agent
\* in the order of self.agents.values()
SaveAgentsConfig(ags) ==
    [ exists  |-> TRUE,
      configs |-> [ i \in 1..Len(ags) |-> ConfigRecord(Values(ags)[i].config) ] ]

\* a loader that reads every field but the model
ConfigFromRecordDefaultModel(rec) ==
    AgentConfig(rec.agent_id, rec.name, rec.description, rec.system_prompt,
                DefaultModel, Str(rec.collection_name))

\* AgentConfig(**config_data)
ConfigFromRecord(rec) ==
    AgentConfig(rec.agent_id, rec.name, rec.description, rec.system_prompt,
                rec.model, Str(rec.collection_name))

RECURSIVE LoadConfigs(_, _)
\* the loop of load_agents_config: self.agents[config.agent_id] = RAGAgent(config)
LoadConfigs(configs, ags) ==
    IF configs = <<>> THEN ags
    ELSE LoadConfigs(Tail(configs),
                     DictSet(ags, ConfigFromRecord(Head(configs)).agent_id,
                             RAGAgent(ConfigFromRecord(Head(configs)))))

\* realistic_restaurant_reviews.csv, when it is there
ReviewsCsv ==
    << [Title |-> "Great", Review |-> "Best pizza", Rating |-> "5", Date |-> "2024-01-01"],
       [Title |-> "Slow",  Review |-> "Long wait",  Rating |-> "2", Date |-> "2024-02-02"] >>

DefaultRestaurantConfig ==
    AgentConfig("restaurant", "Restaurant Expert",
                "Expert in answering questions about pizza restaurant reviews",
                "You are an expert in answering questions about a pizza restaurant",
                DefaultModel, NoStr)

\* AgentManager.create_default_restaurant_agent, as the new
\* [agents, configFile, dirs, store]
CreateDefaultRestaurantAgent(ags, ds, st, csvExists) ==
    LET agent  == RAGAgent(DefaultRestaurantConfig)
        ds1    == InitDirs(ds, DefaultRestaurantConfig)
        st1    == IF csvExists
                  THEN AddDocuments(st, agent,
                           CsvDocuments(ReviewsCsv, "Title", "Review", <<"Rating", "Date">>))
                  ELSE st
        ags1   == DictSet(ags, "restaurant", agent)
    IN  [ agents |-> ags1, configFile |-> SaveAgentsConfig(ags1), dirs |-> ds1, store |-> st1 ]

\* a loader that registers the default agent after reading the file too
LoadAgentsConfigAlwaysDefault(file, ds, st, csvExists) ==
    IF file.exists
    THEN CreateDefaultRestaurantAgent(
             LoadConfigs(file.configs, <<>>),
             ds \cup { DbLocation(ConfigFromRecord(file.configs[i]).agent_id)
                         : i \in 1..Len(file.configs) },
             st, csvExists)
    ELSE CreateDefaultRestaurantAgent(<<>>, ds, st, csvExists)

\* a loader whose agents start on new, empty collections
LoadAgentsConfigFreshStores(file, ds, st, csvExists) ==
    IF file.exists
    THEN [ agents     |-> LoadConfigs(file.configs, <<>>),
           configFile |-> file,
           dirs       |-> ds \cup { DbLocation(ConfigFromRecord(file.configs[i]).agent_id)
                                      : i \in 1..Len(file.configs) },
           store      |-> [ p \in DOMAIN st |->
                              IF \E i \in 1..Len(file.configs) :
                                     p = DbLocation(ConfigFromRecord(file.configs[i]).agent_id)
                              THEN {} ELSE st[p] ] ]
    ELSE CreateDefaultRestaurantAgent(<<>>, ds, st, csvExists)

\* AgentManager.__init__ and load_agents_config on a disk holding file, ds
\* and st: self.agents starts empty
LoadAgentsConfig(file, ds, st, csvExists) ==
    IF file.exists
    THEN [ agents     |-> LoadConfigs(file.configs, <<>>),
           configFile |-> file,
           dirs       |-> ds \cup { DbLocation(ConfigFromRecord(file.configs[i]).agent_id)
                                      : i \in 1..Len(file.configs) },
           store      |-> st ]
    ELSE CreateDefaultRestaurantAgent(<<>>, ds, st, csvExists)

\* AgentManager.get_agent
GetAgent(ags, agent_id) == DictGet(ags, agent_id)

\* list_agents that reports the default model for every agent
ListAgentsDefaultModel(ags) ==
    [ i \in 1..Len(ags) |->
        [ agent_id    |-> ags[i].key,
          name        |-> ags[i].agent.config.name,
          description |-> ags[i].agent.config.description,
          model       |-> DefaultModel ] ]

\* AgentManager.list_agents: agent_id -> {name, description, model}, in the
\* order of self.agents.items()
ListAgents(ags) ==
    [ i \in 1..Len(ags) |->
        [ agent_id    |-> ags[i].key,
          name        |-> ags[i].agent.config.name,
          description |-> ags[i].agent.config.description,
          model       |-> ags[i].agent.config.model ] ]

\* create_agent that registers the agent only when the id is free
\* (self.agents.setdefault)
ManagerCreateAgentIfAbsent(ags, ds, st, config) ==
    LET agent == RAGAgent(config)
        ags1  == IF HasKey(ags, config.agent_id) THEN ags
                 ELSE DictSet(ags, config.agent_id, agent)
    IN  [ agents     |-> ags1,
          configFile |-> SaveAgentsConfig(ags1),
          dirs       |-> InitDirs(ds, config),
          store      |-> st ]

\* create_agent that clears the storage directory it finds under the id
ManagerCreateAgentFreshDir(ags, ds, st, config) ==
    LET agent == RAGAgent(config)
        ags1  == DictSet(ags, config.agent_id, agent)
    IN  [ agents     |-> ags1,
          configFile |-> SaveAgentsConfig(ags1),
          dirs       |-> InitDirs(ds, config),
          store      |-> [ st EXCEPT ![agent.db_location] = {} ] ]

\* create_agent that saves the file before it puts the agent in the map
ManagerCreateAgentSaveFirst(ags, ds, st, config) ==
    LET agent == RAGAgent(config)
        ags1  == DictSet(ags, config.agent_id, agent)
    IN  [ agents     |-> ags1,
          configFile |-> SaveAgentsConfig(ags),
          dirs       |-> InitDirs(ds, config),
          store      |-> st ]

\* AgentManager.create_agent, as the new [agents, configFile, dirs, store]
ManagerCreateAgent(ags, ds, st, config) ==
    LET agent == RAGAgent(config)
        ags1  == DictSet(ags, config.agent_id, agent)
    IN  [ agents     |-> ags1,
          configFile |-> SaveAgentsConfig(ags1),
          dirs       |-> InitDirs(ds, config),
          store      |-> st ]

\* delete_agent without the membership test (self.agents.pop(agent_id, None))
ManagerDeleteAgentUnchecked(ags, file, ds, st, agent_id) ==
    LET db_path == DbLocation(agent_id)
        ags1    == DictDel(ags, agent_id)
    IN  [ agents     |-> ags1,
          configFile |-> SaveAgentsConfig(ags1),
          dirs       |-> ds \ {db_path},
          store      |-> IF db_path \in ds THEN [st EXCEPT ![db_path] = {}] ELSE st,
          returned   |-> TRUE ]

\* delete_agent that leaves the storage directory in place
ManagerDeleteAgentKeepDir(ags, file, ds, st, agent_id) ==
    IF HasKey(ags, agent_id)
    THEN LET ags1 == DictDel(ags, agent_id)
         IN  [ agents     |-> ags1,
               configFile |-> SaveAgentsConfig(ags1),
               dirs       |-> ds,
               store      |-> st,
               returned   |-> TRUE ]
    ELSE [ agents |-> ags, configFile |-> file, dirs |-> ds, store |-> st,
           returned |-> FALSE ]

\* delete_agent that does not rewrite the config file
ManagerDeleteAgentNoSave(ags, file, ds, st, agent_id) ==
    IF HasKey(ags, agent_id)
    THEN LET db_path == DbLocation(agent_id)
         IN  [ agents     |-> DictDel(ags, agent_id),
               configFile |-> file,
               dirs       |-> ds \ {db_path},
               store      |-> IF db_path \in ds THEN [st EXCEPT ![db_path] = {}] ELSE st,
               returned   |-> TRUE ]
    ELSE [ agents |-> ags, configFile |-> file, dirs |-> ds, store |-> st,
           returned |-> FALSE ]

\* AgentManager.delete_agent, as the new [agents, configFile, dirs, store]
\* and the value returned
ManagerDeleteAgent(ags, file, ds, st, agent_id) ==
    IF HasKey(ags, agent_id)
    THEN LET db_path == DbLocation(agent_id)
             ags1    == DictDel(ags, agent_id)
         IN  [ agents     |-> ags1,
               configFile |-> SaveAgentsConfig(ags1),
               dirs       |-> ds \ {db_path},
               store      |-> IF db_path \in ds THEN [st EXCEPT ![db_path] = {}] ELSE st,
               returned   |-> TRUE ]
    ELSE [ agents |-> ags, configFile |-> file, dirs |-> ds, store |-> st,
           returned |-> FALSE ]

\* what can fail inside delete_agent: shutil.rmtree, the open of the
\* config file for writing, and the write into the opened file
DeleteFaults == {"rmtree failed", "open failed", "write failed"}

\* the config file after open(config_file, 'w') has emptied it and the
\* write has failed: it exists and holds no list
TruncatedFile == [ exists |-> TRUE, configs |-> <<>>, truncated |-> TRUE ]

\* AgentManager.delete_agent of a registered agent when the step named by
\* fault raises: the [agents, configFile, dirs, store] it leaves.  rmtree
\* raises before the agent is evicted, having removed the stored files
\* (partial) or none; the save raises after the directory is gone and the
\* agent evicted, before the file is touched (the open) or after it was
\* emptied (the write).
ManagerDeleteAgentFailing(ags, file, ds, st, agent_id, fault, partial) ==
    LET db_path == DbLocation(agent_id)
        ags1    == DictDel(ags, agent_id)
    IN  IF fault = "rmtree failed"
        THEN [ agents     |-> ags,
               configFile |-> file,
               dirs       |-> ds,
               store      |-> IF partial THEN [st EXCEPT ![db_path] = {}] ELSE st ]
        ELSE [ agents     |-> ags1,
               configFile |-> IF fault = "open failed" THEN file ELSE TruncatedFile,
               dirs       |-> ds \ {db_path},
               store      |-> [st EXCEPT ![db_path] = {}] ]

----------------------------------------------------------------------------
(* MultiAgentQAService *)

AllPaths == { DbLocation(a) : a \in RequestIds }

NotFound(agent_id) == [ error |-> "Agent " \o agent_id \o " not found" ]

\* the documents of one POST /agents/documents/add body: n documents,
\* told apart by the request's tag and their position
RequestDocuments(tag, n) ==
    [ i \in 1..n |-> [ content |-> tag \o "-" \o ToString(i - 1), metadata |-> EmptyMeta ] ]

\* the Document objects add_documents_to_agent builds from the dicts
DocObjects(documents) ==
    [ i \in 1..Len(documents) |-> Document(documents[i].content, documents[i].metadata) ]

\* the service call raised instead of returning
Raised(r) == "raised" \in DOMAIN r

\* no failure of an external service during the call
NoFault == ""

\* one call of agent.retriever.invoke(question) and what it returned
RetrieverInvoke(agent, question, hits) ==
    [ call |-> "retriever", db_location |-> agent.db_location,
      question |-> question, hits |-> hits ]

\* one call of agent.chain.invoke({"documents": docs, "question": question})
\* and what it raised, NoFault when it returned
ChainInvoke(agent, question, hits, fault) ==
    [ call |-> "llm", model |-> agent.config.model,
      question |-> question, hits |-> hits, raised |-> fault ]

\* MultiAgentQAService.list_agents: the dict of AgentManager.list_agents
ServiceListAgents ==
    /\ result' = [ agents |-> ListAgents(agents) ]
    /\ invocations' = <<>>
    /\ UNCHANGED <<agents, configFile, dirs, store>>

\* MultiAgentQAService.create_agent
CreateAgent(req) ==
    LET config == AgentConfig(req.agent_id, req.name, req.description,
                              req.system_prompt, req.model, NoStr)
        s      == ManagerCreateAgent(agents, dirs, store, config)
    IN  /\ agents' = s.agents
        /\ configFile' = s.configFile
        /\ dirs' = s.dirs
        /\ store' = s.store
        /\ result' = [ agent_id    |-> req.agent_id,
                       name        |-> req.name,
                       description |-> req.description,
                       model       |-> req.model,
                       status      |-> "created" ]
        /\ invocations' = <<>>

\* MultiAgentQAService.delete_agent
DeleteAgent(agent_id) ==
    LET s == ManagerDeleteAgent(agents, configFile, dirs, store, agent_id)
    IN  /\ agents' = s.agents
        /\ configFile' = s.configFile
        /\ dirs' = s.dirs
        /\ store' = s.store
        /\ result' = [ agent_id |-> agent_id,
                       status   |-> IF s.returned THEN "deleted" ELSE "not_found" ]
        /\ invocations' = <<>>

\* MultiAgentQAService.delete_agent when a step of the manager's
\* delete_agent raises: the exception passes through
DeleteAgentFailing(agent_id, fault, partial) ==
    /\ HasKey(agents, agent_id)
    /\ DbLocation(agent_id) \in dirs
    /\ LET s == ManagerDeleteAgentFailing(agents, configFile, dirs, store,
                                          agent_id, fault, partial)
       IN  /\ agents' = s.agents
           /\ configFile' = s.configFile
           /\ dirs' = s.dirs
           /\ store' = s.store
    /\ result' = [ raised |-> fault ]
    /\ invocations' = <<>>

\* MultiAgentQAService.add_documents_to_agent
AddDocumentsToAgent(agent_id, documents) ==
    LET agent == GetAgent(agents, agent_id)
    IN  IF agent = None
        THEN /\ result' = NotFound(agent_id)
             /\ invocations' = <<>>
             /\ UNCHANGED <<agents, configFile, dirs, store>>
        ELSE /\ store' = AddDocuments(store, agent, DocObjects(documents))
             /\ result' = [ agent_id        |-> agent_id,
                            documents_added |-> Len(documents),
                            status          |-> "success" ]
             /\ invocations' = <<>>
             /\ UNCHANGED <<agents, configFile, dirs>>

\* MultiAgentQAService.get_relevant_documents on the registry ags and the
\* stores st: every [result, invocations] the call can end with
GetRelevantDocumentsOutcomes(ags, st, agent_id, question) ==
    LET agent == GetAgent(ags, agent_id)
    IN  IF agent = None
        THEN { [ result |-> NotFound(agent_id), invocations |-> <<>> ] }
        ELSE { [ result      |-> [ agent_id   |-> agent_id,
                                   agent_name |-> agent.config.name,
                                   question   |-> question,
                                   documents  |-> RelevantDocuments(hits) ],
                 invocations |-> <<RetrieverInvoke(agent, question, hits)>> ] :
               hits \in SearchResults(st[agent.db_location], K) }

\* MultiAgentQAService.get_relevant_documents
GetRelevantDocuments(agent_id, question) ==
    /\ \E out \in GetRelevantDocumentsOutcomes(agents, store, agent_id, question) :
            /\ result' = out.result
            /\ invocations' = out.invocations
    /\ UNCHANGED <<agents, configFile, dirs, store>>

----------------------------------------------------------------------------
(* Questions: RAGAgent.answer_question, ask_agent, ask_all_agents *)

\* what a failing language-model call raises
LlmFaults == {NoFault, "connection refused"}

\* the text the language model returns
Answers == {"an answer"}

\* answer_question that queries the store a second time for the documents
\* it returns
AnswerQuestionRequery(agent, question, hits, answer, fault) ==
    IF fault # NoFault
    THEN [ result      |-> [ raised |-> fault ],
           invocations |-> << RetrieverInvoke(agent, question, hits),
                              ChainInvoke(agent, question, hits, fault) >> ]
    ELSE [ result      |-> [ agent_id           |-> agent.config.agent_id,
                             agent_name         |-> agent.config.name,
                             question           |-> question,
                             answer             |-> answer,
                             relevant_documents |-> RelevantDocuments(hits) ],
           invocations |-> << RetrieverInvoke(agent, question, hits),
                              ChainInvoke(agent, question, hits, fault),
                              RetrieverInvoke(agent, question, hits) >> ]

\* RAGAgent.answer_question when the retriever returns hits and the model
\* returns answer, or raises fault: what it returns (or that it raised) and
\* the calls it made
AnswerQuestion(agent, question, hits, answer, fault) ==
    [ result      |-> IF fault # NoFault
                      THEN [ raised |-> fault ]
                      ELSE [ agent_id           |-> agent.config.agent_id,
                             agent_name         |-> agent.config.name,
                             question           |-> question,
                             answer             |-> answer,
                             relevant_documents |-> RelevantDocuments(hits) ],
      invocations |-> << RetrieverInvoke(agent, question, hits),
                         ChainInvoke(agent, question, hits, fault) >> ]

\* MultiAgentQAService.ask_agent on the registry ags and the stores st when
\* the model call raises fault: every [result, invocations] it can end with
AskAgentOutcomes(ags, st, agent_id, question, fault) ==
    LET agent == GetAgent(ags, agent_id)
    IN  IF agent = None
        THEN { [ result |-> NotFound(agent_id), invocations |-> <<>> ] }
        ELSE { AnswerQuestion(agent, question, hits, answer, fault) :
               hits \in SearchResults(st[agent.db_location], K), answer \in Answers }

\* MultiAgentQAService.ask_agent
AskAgent(agent_id, question, fault) ==
    /\ \E out \in AskAgentOutcomes(agents, store, agent_id, question, fault) :
            /\ result' = out.result
            /\ invocations' = out.invocations
    /\ UNCHANGED <<agents, configFile, dirs, store>>

\* a legacy service bound to whichever agent is registered first
LegacyAgentIdFirst == IF agents = <<>> THEN "restaurant" ELSE agents[1].key

\* the agent id RestaurantQAService is bound to
LegacyAgentId == "restaurant"

\* RestaurantQAService.get_relevant_reviews: the list it returns
LegacyGetRelevantReviews(question) ==
    /\ \E out \in GetRelevantDocumentsOutcomes(agents, store, LegacyAgentId, question) :
            /\ result' = [ reviews |-> IF "error" \in DOMAIN out.result
                                       THEN <<>>
                                       ELSE out.result.documents ]
            /\ invocations' = out.invocations
    /\ UNCHANGED <<agents, configFile, dirs, store>>

\* a legacy answer that hands the not-found result of ask_agent on
LegacyAnswerQuestionPassError(question, fault) ==
    /\ \E out \in AskAgentOutcomes(agents, store, LegacyAgentId, question, fault) :
            /\ result' = IF Raised(out.result) \/ "error" \in DOMAIN out.result
                         THEN out.result
                         ELSE [ question         |-> out.result.question,
                                answer           |-> out.result.answer,
                                relevant_reviews |-> out.result.relevant_documents ]
            /\ invocations' = out.invocations
    /\ UNCHANGED <<agents, configFile, dirs, store>>

\* RestaurantQAService.answer_question
LegacyAnswerQuestion(question, fault) ==
    /\ \E out \in AskAgentOutcomes(agents, store, LegacyAgentId, question, fault) :
            /\ result' = IF Raised(out.result) THEN out.result
                         ELSE IF "error" \in DOMAIN out.result
                         THEN [ question         |-> question,
                                answer           |-> "Error: " \o out.result.error,
                                relevant_reviews |-> <<>> ]
                         ELSE [ question         |-> out.result.question,
                                answer           |-> out.result.answer,
                                relevant_reviews |-> out.result.relevant_documents ]
            /\ invocations' = out.invocations
    /\ UNCHANGED <<agents, configFile, dirs, store>>

\* a fan-out that leaves out the agents whose answer raised
AskAllEntrySkipFailed(agent_id, agent, answered) ==
    IF Raised(answered.result) THEN <<>>
    ELSE << [ key |-> agent_id, response |-> answered.result ] >>

\* ask_all_agents, one turn of the loop: the entry responses[agent_id]
\* gets, the answer or the error dict built in the except branch
AskAllEntry(agent_id, agent, answered) ==
    << [ key      |-> agent_id,
         response |-> IF Raised(answered.result)
                      THEN [ error      |-> answered.result.raised,
                             agent_id   |-> agent_id,
                             agent_name |-> agent.config.name ]
                      ELSE answered.result ] >>

RECURSIVE AskAllOutcomes(_, _, _, _)
\* ask_all_agents, the loop over self.agent_manager.agents.items(): every
\* [responses, invocations] it can end with on the stores st when the
\* model calls of the agents in failing raise
AskAllOutcomes(ags, st, question, failing) ==
    IF ags = <<>>
    THEN { [ responses |-> <<>>, invocations |-> <<>> ] }
    ELSE LET agent_id == Head(ags).key
             agent    == Head(ags).agent
             fault    == IF agent_id \in failing THEN "connection refused" ELSE NoFault
         IN  { [ responses   |-> AskAllEntry(agent_id, agent,
                                     AnswerQuestion(agent, question, hits, answer, fault))
                                 \o rest.responses,
                 invocations |-> AnswerQuestion(agent, question, hits, answer, fault).invocations
                                 \o rest.invocations ] :
                 hits \in SearchResults(st[agent.db_location], K),
                 answer \in Answers,
                 rest \in AskAllOutcomes(Tail(ags), st, question, failing) }

\* MultiAgentQAService.ask_all_agents
AskAllAgents(question, failing) ==
    /\ \E out \in AskAllOutcomes(agents, store, question, failing) :
            /\ result' = [ question     |-> question,
                           responses    |-> out.responses,
                           total_agents |-> Len(out.responses) ]
            /\ invocations' = out.invocations
    /\ UNCHANGED <<agents, configFile, dirs, store>>

----------------------------------------------------------------------------
(* CSV ingestion: RAGAgent.add_csv_documents, add_csv_to_agent *)

\* the uploaded files the model draws from, as pandas reads them: a table
\* with rows, a table with a header and no rows, and a file that
\* pd.read_csv cannot parse
GoodCsv ==
    [ readable |-> TRUE,
      columns  |-> {"Title", "Text", "Rating"},
      rows     |-> << [Title |-> "Fees", Text |-> "Fees fell", Rating |-> "4"],
                      [Title |-> "Fees", Text |-> "Rates rose", Rating |-> "3"] >> ]

HeaderOnlyCsv ==
    [ readable |-> TRUE, columns |-> {"Title", "Text", "Rating"}, rows |-> <<>> ]

UnreadableCsv == [ readable |-> FALSE, columns |-> {}, rows |-> <<>> ]

CsvFiles == {GoodCsv, HeaderOnlyCsv, UnreadableCsv}

\* the column names requests ask for; "Missing" is in no file
TitleCols == {"Title", "Missing"}

ContentCols == {"Text", "Title", "Missing"}

\* the metadata_cols query parameter: absent, or a comma-separated list
MetadataColParams == {NoStr, Str("Rating, Absent")}

\* what a failing embedding or vector-store call raises during ingestion
IngestFaults == {NoFault, "connection refused", "model not found, try pulling it first"}

\* str(KeyError(col))
KeyError(col) == "'" \o col \o "'"

\* the first column the loop over df.iterrows() fails to find in a row:
\* row[title_col] is read before row[content_col], and only row[content_col]
\* when both name the same column; no row, no lookup
MissingColumn(df, title_col, content_col) ==
    IF Len(df.rows) = 0 THEN NoStr
    ELSE IF title_col # content_col /\ title_col \notin df.columns THEN Str(title_col)
    ELSE IF content_col \notin df.columns THEN Str(content_col)
    ELSE NoStr

\* add_csv_documents that checks the requested columns against the header
\* before it reads any row
MissingColumnInHeader(df, title_col, content_col) ==
    IF title_col # content_col /\ title_col \notin df.columns THEN Str(title_col)
    ELSE IF content_col \notin df.columns THEN Str(content_col)
    ELSE NoStr

\* RAGAgent.add_csv_documents on the file at csv_path: the exception it
\* raises (NoFault when it returns) and the stores it leaves
AddCsvDocuments(st, agent, file, title_col, content_col, metadata_cols, fault) ==
    IF ~file.readable
    THEN [ raised |-> "Error tokenizing data", store |-> st ]
    ELSE IF MissingColumn(file, title_col, content_col) # NoStr
    THEN [ raised |-> KeyError(MissingColumn(file, title_col, content_col)[1]), store |-> st ]
    ELSE IF fault # NoFault
    THEN [ raised |-> fault, store |-> st ]
    ELSE [ raised |-> NoFault,
           store  |-> AddDocuments(st, agent,
                          CsvDocuments(file.rows, title_col, content_col, metadata_cols)) ]

\* MultiAgentQAService.add_csv_to_agent; exists tells whether csv_path is
\* a file and file what it holds
AddCsvToAgent(agent_id, csv_path, exists, file, title_col, content_col, metadata_cols, fault) ==
    LET agent == GetAgent(agents, agent_id)
    IN  IF agent = None
        THEN /\ result' = NotFound(agent_id)
             /\ invocations' = <<>>
             /\ UNCHANGED <<agents, configFile, dirs, store>>
        ELSE IF ~exists
        THEN /\ result' = [ error |-> "CSV file " \o csv_path \o " not found" ]
             /\ invocations' = <<>>
             /\ UNCHANGED <<agents, configFile, dirs, store>>
        ELSE LET out == AddCsvDocuments(store, agent, file, title_col, content_col,
                                        metadata_cols, fault)
             IN  /\ store' = out.store
                 /\ result' = IF out.raised = NoFault
                              THEN [ agent_id |-> agent_id, csv_path |-> csv_path,
                                     status |-> "success" ]
                              ELSE [ error |-> "Failed to add CSV: " \o out.raised ]
                 /\ invocations' = <<>>
                 /\ UNCHANGED <<agents, configFile, dirs>>

----------------------------------------------------------------------------
(* Strings *)

Char(s, i) == SubSeq(s, i, i)

UpperCase == "ABCDEFGHIJKLMNOPQRSTUVWXYZ"

LowerCase == "abcdefghijklmnopqrstuvwxyz"

\* the lower-case letter of every upper-case letter
LowerTable ==
    [ c \in { Char(UpperCase, j) : j \in 1..Len(UpperCase) } |->
        Char(LowerCase, CHOOSE j \in 1..Len(UpperCase) : Char(UpperCase, j) = c) ]

LowerChar(c) == IF c \in DOMAIN LowerTable THEN LowerTable[c] ELSE c

RECURSIVE Lower(_)
\* str.lower()
Lower(s) == IF s = "" THEN "" ELSE LowerChar(Char(s, 1)) \o Lower(SubSeq(s, 2, Len(s)))

\* t in s
Contains(s, t) ==
    \E i \in 1..Len(s) :
        i + Len(t) - 1 <= Len(s) /\ SubSeq(s, i, i + Len(t) - 1) = t

RECURSIVE Strip(_)
\* str.strip(), for blanks
Strip(s) ==
    IF s = "" THEN ""
    ELSE IF Char(s, 1) = " " THEN Strip(SubSeq(s, 2, Len(s)))
    ELSE IF Char(s, Len(s)) = " " THEN Strip(SubSeq(s, 1, Len(s) - 1))
    ELSE s

RECURSIVE Split(_, _)
\* str.split(sep), for a separator of one character
Split(s, sep) ==
    IF \E i \in 1..Len(s) : Char(s, i) = sep
    THEN LET i == CHOOSE j \in 1..Len(s) :
                     Char(s, j) = sep /\ \A h \in 1..(j - 1) : Char(s, h) # sep
         IN  <<SubSeq(s, 1, i - 1)>> \o Split(SubSeq(s, i + 1, Len(s)), sep)
    ELSE <<s>>

----------------------------------------------------------------------------
(* The HTTP handlers of api.py *)

\* a normal return of a handler: status 200 with the returned body
Ok(body) == [ status_code |-> 200, body |-> body ]

\* raise HTTPException(status_code, detail)
HTTPException(status_code, detail) ==
    [ status_code |-> status_code, body |-> [ detail |-> detail ] ]

\* a handler's "except Exception as e: raise HTTPException(500, prefix + str(e))"
InternalError(prefix, r) == HTTPException(500, prefix \o r.raised)

\* POST /ask
ApiLegacyAsk(question, fault) ==
    /\ LegacyAnswerQuestion(question, fault)
    /\ response' = IF Raised(result') THEN InternalError("Erro ao processar pergunta: ", result')
                   ELSE Ok(result')

\* POST /reviews
ApiLegacyReviews(question) ==
    /\ LegacyGetRelevantReviews(question)
    /\ response' = IF Raised(result') THEN InternalError("Erro ao buscar reviews: ", result')
                   ELSE Ok(result')

\* GET /agents
ApiListAgents ==
    /\ ServiceListAgents
    /\ response' = IF Raised(result') THEN InternalError("Erro ao listar agentes: ", result')
                   ELSE Ok(result')

\* POST /agents/create
ApiCreateAgent(req) ==
    /\ CreateAgent(req)
    /\ response' = IF Raised(result') THEN InternalError("Erro ao criar agente: ", result')
                   ELSE Ok(result')

\* DELETE /agents/{agent_id}
ApiDeleteAgent(agent_id) ==
    /\ DeleteAgent(agent_id)
    /\ response' =
          IF Raised(result') THEN InternalError("Erro ao deletar agente: ", result')
          ELSE IF result'.status = "not_found"
          THEN HTTPException(404, "Agente " \o agent_id \o " nao encontrado")
          ELSE Ok(result')

\* DELETE /agents/{agent_id} when the delete raises
ApiDeleteAgentFailing(agent_id, fault, partial) ==
    /\ DeleteAgentFailing(agent_id, fault, partial)
    /\ response' = InternalError("Erro ao deletar agente: ", result')

\* POST /agents/documents
ApiGetAgentDocuments(agent_id, question) ==
    /\ GetRelevantDocuments(agent_id, question)
    /\ response' =
          IF Raised(result') THEN InternalError("Erro ao buscar documentos: ", result')
          ELSE IF "error" \in DOMAIN result'
          THEN HTTPException(404, result'.error)
          ELSE Ok(result')

\* the documents/add handler without its test for an error result
ApiAddDocumentsToAgentNoCheck(agent_id, documents) ==
    /\ AddDocumentsToAgent(agent_id, documents)
    /\ response' = Ok(result')

\* POST /agents/documents/add
ApiAddDocumentsToAgent(agent_id, documents) ==
    /\ AddDocumentsToAgent(agent_id, documents)
    /\ response' =
          IF Raised(result') THEN InternalError("Erro ao adicionar documentos: ", result')
          ELSE IF "error" \in DOMAIN result'
          THEN HTTPException(404, result'.error)
          ELSE Ok(result')

\* POST /agents/ask
ApiAskAgent(agent_id, question, fault) ==
    /\ AskAgent(agent_id, question, fault)
    /\ response' =
          IF Raised(result') THEN InternalError("Erro ao processar pergunta: ", result')
          ELSE IF "error" \in DOMAIN result'
          THEN HTTPException(404, result'.error)
          ELSE Ok(result')

\* POST /agents/ask-all
ApiAskAllAgents(question, failing) ==
    /\ AskAllAgents(question, failing)
    /\ response' =
          IF Raised(result') THEN InternalError("Erro ao processar pergunta: ", result')
          ELSE Ok(result')

\* the name tempfile.NamedTemporaryFile(suffix=".csv") gives the upload
TempPath == "/tmp/upload.csv"

\* upload_csv_to_agent: metadata_cols split at the commas and stripped,
\* None when the parameter is absent or empty
MetadataColList(metadata_cols) ==
    IF metadata_cols = NoStr \/ metadata_cols = Str("")
    THEN <<>>
    ELSE [ i \in 1..Len(Split(metadata_cols[1], ",")) |->
             Strip(Split(metadata_cols[1], ",")[i]) ]

\* the status upload_csv_to_agent gives an error result
CsvErrorStatus(error) == IF Contains(Lower(error), "not found") THEN 404 ELSE 400

\* upload_csv_to_agent from the inner try on: the service call on the
\* staged file at temp_path and the response made of its result
UploadCsvFrom(temp_path, exists, agent_id, title_col, content_col, metadata_cols, file, fault) ==
    /\ AddCsvToAgent(agent_id, temp_path, exists, file, title_col, content_col,
                     MetadataColList(metadata_cols), fault)
    /\ response' =
          IF Raised(result') THEN InternalError("Erro ao fazer upload do CSV: ", result')
          ELSE IF "error" \in DOMAIN result'
          THEN HTTPException(CsvErrorStatus(result'.error), result'.error)
          ELSE Ok(result')

\* POST /agents/documents/upload-csv: the upload is written to a temporary
\* file, which exists when the service is called
ApiUploadCsv(agent_id, title_col, content_col, metadata_cols, file, fault) ==
    UploadCsvFrom(TempPath, TRUE, agent_id, title_col, content_col, metadata_cols,
                  file, fault)

\* the clients whose requests can be in flight together
Clients == {"c1", "c2"}

\* a client with no request in flight
Idle == [ state |-> "idle" ]

\* the requests, as the server receives them
CreateReq(body) == [ op |-> "create", body |-> body ]

DeleteReq(agent_id) == [ op |-> "delete", agent_id |-> agent_id ]

AddReq(agent_id, documents) ==
    [ op |-> "add", agent_id |-> agent_id, documents |-> documents ]

\* an upload, with the failure its ingestion is going to meet
UploadReq(agent_id, title_col, content_col, metadata_cols, file, fault) ==
    [ agent_id |-> agent_id, title_col |-> title_col, content_col |-> content_col,
      metadata_cols |-> metadata_cols, file |-> file, fault |-> fault,
      op |-> "upload_csv" ]

\* the routes of app: the handler a request is given to
Route(req) ==
    CASE req.op = "create"     -> ApiCreateAgent(req.body)
      [] req.op = "delete"     -> ApiDeleteAgent(req.agent_id)
      [] req.op = "add"        -> ApiAddDocumentsToAgent(req.agent_id, req.documents)
      [] req.op = "upload_csv" -> ApiUploadCsv(req.agent_id, req.title_col, req.content_col,
                                               req.metadata_cols, req.file, req.fault)

\* a client whose request has reached the server and waits for its handler
Pending(req) == [ state |-> "pending", request |-> req ]

\* a client that has its response
Returned(req, resp) == [ response |-> resp, state |-> "returned", request |-> req ]

\* the names tempfile.NamedTemporaryFile can give: one no file carries yet
TempPaths == {TempPath, "/tmp/upload2.csv"}

\* what can fail while the upload is copied into the temporary file: the
\* read of the request body and the write into the file
StagingFaults == {"read failed", "write failed"}

\* a client whose upload handler has created the temporary file at
\* temp_path and awaits file.read()
Reading(req, temp_path) == [ state |-> "reading", request |-> req, temp_path |-> temp_path ]

\* upload_csv_to_agent up to its await: NamedTemporaryFile(delete=False)
\* creates the file, and the handler waits for the body of the upload
UploadOpen(c, req) ==
    /\ inflight[c].state # "reading"
    /\ \E temp_path \in TempPaths \ tempFiles :
          /\ tempFiles' = tempFiles \cup {temp_path}
          /\ inflight' = [inflight EXCEPT ![c] = Reading(req, temp_path)]
    /\ UNCHANGED <<agents, configFile, dirs, store, result, response, invocations>>

\* upload_csv_to_agent after its await.  When the read or the write raises
\* (staging), the with block closes the file and the outer except answers
\* 500: the inner try, whose finally unlinks the file, was never entered.
\* Otherwise the inner try calls the service, and its finally unlinks the
\* file whatever the outcome.
UploadFinish(c, staging) ==
    /\ inflight[c].state = "reading"
    /\ LET req       == inflight[c].request
           temp_path == inflight[c].temp_path
       IN  IF staging # NoFault
           THEN /\ response' = InternalError("Erro ao fazer upload do CSV: ",
                                             [ raised |-> staging ])
                /\ UNCHANGED <<agents, configFile, dirs, store, result, invocations,
                               tempFiles>>
           ELSE /\ UploadCsvFrom(temp_path, temp_path \in tempFiles, req.agent_id,
                                 req.title_col, req.content_col, req.metadata_cols,
                                 req.file, req.fault)
                /\ tempFiles' = tempFiles \ {temp_path}
    /\ inflight' = [inflight EXCEPT ![c] = Returned(inflight[c].request, response')]

\* one request of client c, received and handled
Serve(c, req) ==
    /\ Route(req)
    /\ inflight' = [inflight EXCEPT ![c] = Returned(req, response')]
    /\ UNCHANGED tempFiles

\* two requests reach the server together
Arrive(req1, req2) ==
    /\ \A c \in Clients : inflight[c].state # "pending"
    /\ inflight' = [ c \in Clients |-> IF c = "c1" THEN Pending(req1) ELSE Pending(req2) ]
    /\ UNCHANGED <<agents, configFile, dirs, store, result, response, invocations,
                   tempFiles>>

\* the event loop runs the handler of one waiting request; the handlers
\* of create, delete and documents/add are coroutines without an await, so
\* the loop runs no other handler until this one has returned
Handle(c) ==
    /\ inflight[c].state = "pending"
    /\ Route(inflight[c].request)
    /\ inflight' = [inflight EXCEPT ![c] = Returned(inflight[c].request, response')]
    /\ UNCHANGED tempFiles

\* the process ends and starts again: a new AgentManager() loads the file
Restart ==
    \E csvExists \in BOOLEAN :
        LET s == LoadAgentsConfig(configFile, dirs, store, csvExists)
        IN  /\ agents' = s.agents
            /\ configFile' = s.configFile
            /\ dirs' = s.dirs
            /\ store' = s.store
            /\ result' = None
            /\ response' = None
            /\ invocations' = <<>>
            /\ UNCHANGED <<inflight, tempFiles>>

----------------------------------------------------------------------------
(* The first start, on a disk that holds no config file and no storage *)

Init ==
    \E csvExists \in BOOLEAN :
        LET s == LoadAgentsConfig([exists |-> FALSE, configs |-> <<>>], {},
                                  [p \in AllPaths |-> {}], csvExists)
        IN  /\ agents = s.agents
            /\ configFile = s.configFile
            /\ dirs = s.dirs
            /\ store = s.store
            /\ result = None
            /\ response = None
            /\ invocations = <<>>
            /\ inflight = [c \in Clients |-> Idle]
            /\ tempFiles = {}

Next ==
    \/ \E req \in CreateRequests : ApiCreateAgent(req) /\ UNCHANGED <<inflight, tempFiles>>
    \/ \E agent_id \in RequestIds : ApiDeleteAgent(agent_id) /\ UNCHANGED <<inflight, tempFiles>>
    \/ \E agent_id \in RequestIds, tag \in Tags, n \in BatchSizes :
            ApiAddDocumentsToAgent(agent_id, RequestDocuments(tag, n)) /\ UNCHANGED <<inflight, tempFiles>>
    \/ \E agent_id \in RequestIds, question \in Questions :
            ApiGetAgentDocuments(agent_id, question) /\ UNCHANGED <<inflight, tempFiles>>
    \/ ApiListAgents /\ UNCHANGED <<inflight, tempFiles>>
    \/ Restart

Spec == Init /\ [][Next]_vars

\* every endpoint that names an agent and the fan-out, with the failures of
\* the language model, on one kind of upload and fewer kinds of batches
NextApi ==
    \/ \E req \in CreateRequests :
            req.model = DefaultModel /\ ApiCreateAgent(req) /\ UNCHANGED <<inflight, tempFiles>>
    \/ \E agent_id \in RequestIds : ApiDeleteAgent(agent_id) /\ UNCHANGED <<inflight, tempFiles>>
    \/ \E agent_id \in RequestIds, n \in {SmallBatch, BigBatch} :
            ApiAddDocumentsToAgent(agent_id, RequestDocuments("t1", n)) /\ UNCHANGED <<inflight, tempFiles>>
    \/ \E agent_id \in RequestIds, question \in Questions :
            ApiGetAgentDocuments(agent_id, question) /\ UNCHANGED <<inflight, tempFiles>>
    \/ \E agent_id \in RequestIds, question \in Questions, fault \in LlmFaults :
            ApiAskAgent(agent_id, question, fault) /\ UNCHANGED <<inflight, tempFiles>>
    \/ \E question \in Questions, failing \in SUBSET AgentIds :
            ApiAskAllAgents(question, failing) /\ UNCHANGED <<inflight, tempFiles>>
    \/ \E agent_id \in RequestIds :
            ApiUploadCsv(agent_id, "Title", "Text", NoStr, GoodCsv, NoFault)
            /\ UNCHANGED <<inflight, tempFiles>>

SpecApi == Init /\ [][NextApi]_vars

\* the uploads: a file with rows under every choice of columns, a file
\* without rows under every choice of title and content column, a file
\* that cannot be read, and an ingestion that fails after the rows were read
UploadRequests ==
    { r \in { UploadReq(agent_id, title_col, content_col, metadata_cols, file, fault) :
                agent_id \in RequestIds, title_col \in TitleCols,
                content_col \in ContentCols, metadata_cols \in MetadataColParams,
                file \in CsvFiles, fault \in IngestFaults } :
        /\ r.file = UnreadableCsv => r.title_col = "Title" /\ r.content_col = "Text"
        /\ r.file # GoodCsv => r.metadata_cols = NoStr
        /\ r.fault # NoFault => /\ r.file = GoodCsv
                                /\ r.title_col = "Title" /\ r.content_col = "Text"
                                /\ r.metadata_cols = NoStr }

\* the CSV upload against a registry that creates and deletes agents
NextCsv ==
    \/ \E req \in CreateRequests :
            req.model = DefaultModel /\ Serve("c1", CreateReq(req))
    \/ \E agent_id \in RequestIds : Serve("c1", DeleteReq(agent_id))
    \/ \E req \in UploadRequests : Serve("c1", req)

SpecCsv == Init /\ [][NextCsv]_vars

\* the CSV upload in its two steps, with the failures of its staging,
\* against a registry that creates and deletes agents meanwhile
NextUpload ==
    \/ \E req \in CreateRequests :
            req.model = DefaultModel /\ ApiCreateAgent(req) /\ UNCHANGED <<inflight, tempFiles>>
    \/ \E agent_id \in RequestIds : ApiDeleteAgent(agent_id) /\ UNCHANGED <<inflight, tempFiles>>
    \/ \E req \in UploadRequests :
            /\ req.title_col = "Title"
            /\ req.metadata_cols = NoStr
            /\ req.fault = NoFault
            /\ UploadOpen("c1", req)
    \/ \E staging \in StagingFaults \cup {NoFault} : UploadFinish("c1", staging)

SpecUpload == Init /\ [][NextUpload]_vars

\* creates, deletes and adds on a disk whose operations can fail during a
\* delete
NextFault ==
    \/ \E req \in CreateRequests : ApiCreateAgent(req) /\ UNCHANGED <<inflight, tempFiles>>
    \/ \E agent_id \in RequestIds : ApiDeleteAgent(agent_id) /\ UNCHANGED <<inflight, tempFiles>>
    \/ \E agent_id \in RequestIds, n \in {SmallBatch, BigBatch} :
            ApiAddDocumentsToAgent(agent_id, RequestDocuments("t1", n)) /\ UNCHANGED <<inflight, tempFiles>>
    \/ \E agent_id \in AgentIds, fault \in DeleteFaults, partial \in BOOLEAN :
            ApiDeleteAgentFailing(agent_id, fault, partial) /\ UNCHANGED <<inflight, tempFiles>>

SpecFault == Init /\ [][NextFault]_vars

\* the legacy endpoints against a registry that creates and deletes agents
\* and stores documents
NextLegacy ==
    \/ \E req \in CreateRequests : ApiCreateAgent(req) /\ UNCHANGED <<inflight, tempFiles>>
    \/ \E agent_id \in AgentIds : ApiDeleteAgent(agent_id) /\ UNCHANGED <<inflight, tempFiles>>
    \/ \E agent_id \in AgentIds, n \in {SmallBatch, BigBatch} :
            ApiAddDocumentsToAgent(agent_id, RequestDocuments("t1", n)) /\ UNCHANGED <<inflight, tempFiles>>
    \/ \E question \in Questions, fault \in LlmFaults :
            ApiLegacyAsk(question, fault) /\ UNCHANGED <<inflight, tempFiles>>
    \/ \E question \in Questions : ApiLegacyReviews(question) /\ UNCHANGED <<inflight, tempFiles>>

SpecLegacy == Init /\ [][NextLegacy]_vars

\* the tag that tells a client's documents from the other client's
ClientTag(c) == IF c = "c1" THEN "t1" ELSE "t2"

\* the registry mutations and document batches a client sends while the
\* other client's request is in flight
ConcRequests(c) ==
    { CreateReq(req) : req \in { r \in CreateRequests : r.model = DefaultModel } }
    \cup { DeleteReq(agent_id) : agent_id \in AgentIds }
    \cup { AddReq(agent_id, RequestDocuments(ClientTag(c), n)) :
              agent_id \in AgentIds, n \in {SmallBatch, BigBatch} }

NextConc ==
    \/ \E req1 \in ConcRequests("c1"), req2 \in ConcRequests("c2") : Arrive(req1, req2)
    \/ \E c \in Clients : Handle(c)

SpecConc == Init /\ [][NextConc]_vars

----------------------------------------------------------------------------
(* What the formulas below read off a state *)

Registered(agent_id) == HasKey(agents, agent_id)

Collection(agent_id) == store[DbLocation(agent_id)]

HasStatus(r, status) == "status" \in DOMAIN r /\ r.status = status

IsAddResult(r) == "documents_added" \in DOMAIN r

IsDocumentsResult(r) == "documents" \in DOMAIN r

----------------------------------------------------------------------------
(* C1 *)

\* C1: whenever create(c) completes, get(c.agent_id) returns an agent whose
\* config carries c's agent_id, name, description, system_prompt and model,
\* and the collection name agent_<agent_id> that c has.
C1_CreateThenGet ==
    [][ \A req \in CreateRequests :
          CreateAgent(req) =>
            LET got == GetAgent(agents', req.agent_id)
            IN  /\ got # None
                /\ got.config.agent_id = req.agent_id
                /\ got.config.name = req.name
                /\ got.config.description = req.description
                /\ got.config.system_prompt = req.system_prompt
                /\ got.config.model = req.model
                /\ got.config.collection_name = "agent_" \o req.agent_id ]_vars

\* a create of the id "finance" with the model m1 has completed and the
\* registry holds it next to the default agent
C1_Witness ==
    /\ HasStatus(result, "created")
    /\ result.agent_id = "finance"
    /\ result.model = "m1"
    /\ Len(agents) = 2
    /\ GetAgent(agents, "finance").config.model = "m1"

----------------------------------------------------------------------------
(* C2 *)

\* C2: a create whose agent_id is already registered answers with an error
\* and leaves the registered agent, the in-memory map and the config file
\* as they were.
C2_DuplicateCreateFails ==
    [][ \A req \in CreateRequests :
          (CreateAgent(req) /\ Registered(req.agent_id)) =>
            /\ "error" \in DOMAIN result'
            /\ agents' = agents
            /\ configFile' = configFile ]_vars

----------------------------------------------------------------------------
(* C3 *)

\* C3: delete(id) of an id that is not registered returns False (status
\* "not_found") and leaves the map, list(), the config file, the storage
\* directories and their collections as they were.
C3_DeleteUnregistered ==
    [][ \A agent_id \in RequestIds :
          (DeleteAgent(agent_id) /\ ~Registered(agent_id)) =>
            /\ ~ManagerDeleteAgent(agents, configFile, dirs, store, agent_id).returned
            /\ result' = [agent_id |-> agent_id, status |-> "not_found"]
            /\ agents' = agents
            /\ ListAgents(agents') = ListAgents(agents)
            /\ configFile' = configFile
            /\ dirs' = dirs
            /\ store' = store ]_vars

\* a delete of an unregistered id has answered not_found while two agents
\* are registered and one of them holds documents
C3_Witness ==
    /\ HasStatus(result, "not_found")
    /\ ~Registered(result.agent_id)
    /\ Len(agents) = 2
    /\ \E a \in AgentIds : Collection(a) # {}

----------------------------------------------------------------------------
(* C4 *)

\* C4: after delete(id) returned True for a registered id, the directory
\* ./agents_db/<id> does not exist, get(id) returns None and list() has no
\* entry for id.
C4_DeleteRegistered ==
    [][ \A agent_id \in RequestIds :
          (DeleteAgent(agent_id) /\ Registered(agent_id)) =>
            /\ result' = [agent_id |-> agent_id, status |-> "deleted"]
            /\ DbLocation(agent_id) \notin dirs'
            /\ Collection(agent_id)' = {}
            /\ GetAgent(agents', agent_id) = None
            /\ \A i \in 1..Len(ListAgents(agents')) :
                  ListAgents(agents')[i].agent_id # agent_id ]_vars

\* a delete has answered deleted, the id's directory is gone and another
\* agent is still registered
C4_Witness ==
    /\ HasStatus(result, "deleted")
    /\ DbLocation(result.agent_id) \notin dirs
    /\ ~Registered(result.agent_id)
    /\ Len(agents) = 1

----------------------------------------------------------------------------
(* C5 *)

\* C5: the config file holds exactly one record per agent of the in-memory
\* map, in the map's order, with the agent's key as agent_id and the
\* agent's field values; this holds after every completed create and delete.
C5_FileMatchesMap ==
    /\ configFile.exists
    /\ Len(configFile.configs) = Len(agents)
    /\ \A i \in 1..Len(agents) :
          /\ configFile.configs[i].agent_id = agents[i].key
          /\ configFile.configs[i].agent_id = agents[i].agent.config.agent_id
          /\ configFile.configs[i].name = agents[i].agent.config.name
          /\ configFile.configs[i].description = agents[i].agent.config.description
          /\ configFile.configs[i].system_prompt = agents[i].agent.config.system_prompt
          /\ configFile.configs[i].model = agents[i].agent.config.model
          /\ configFile.configs[i].collection_name = agents[i].agent.config.collection_name

\* a delete has completed and left one agent, created with the model m1, in
\* the map and in the file
C5_Witness ==
    /\ HasStatus(result, "deleted")
    /\ Len(agents) = 1
    /\ agents[1].agent.config.model = "m1"
    /\ Len(configFile.configs) = 1

----------------------------------------------------------------------------
(* C6 *)

\* C6: a registry built afresh from the config file lists the same
\* agent_id -> (name, description, model) entries as list() did before the
\* restart, and the restart leaves every collection as it was.
C6_RestartRoundTrip ==
    [][ Restart =>
          /\ ListAgents(agents') = ListAgents(agents)
          /\ store' = store ]_vars

\* a restart has happened after creates and a delete: the registry holds
\* two agents, finance first and with the model m1, and documents are stored
C6_Witness ==
    /\ result = None
    /\ Len(agents) = 2
    /\ agents[1].key = "finance"
    /\ agents[1].agent.config.model = "m1"
    /\ Collection("finance") # {}
    /\ Collection("restaurant") # {}

----------------------------------------------------------------------------
(* C7 *)

\* C7: load() on a disk without config file registers exactly one agent,
\* "restaurant", and writes the config file; load() with a config file
\* registers exactly one agent per stored record, in the records' order, and
\* does not add the default agent.
C7_Load ==
    /\ Keys(agents) = <<"restaurant">>
    /\ configFile.exists
    /\ Len(configFile.configs) = 1
    /\ configFile.configs[1].agent_id = "restaurant"
    /\ [][ Restart =>
              /\ Len(agents') = Len(configFile.configs)
              /\ \A i \in 1..Len(configFile.configs) :
                    /\ agents'[i].key = configFile.configs[i].agent_id
                    /\ agents'[i].agent.config.agent_id = configFile.configs[i].agent_id
              /\ configFile' = configFile ]_vars

\* a restart has loaded a file that holds the record of finance alone: the
\* default agent is not registered
C7_Witness ==
    /\ result = None
    /\ Keys(agents) = <<"finance">>
    /\ ~Registered("restaurant")
    /\ Len(configFile.configs) = 1

----------------------------------------------------------------------------
(* C8 *)

\* C8: add_documents of n documents to an agent whose collection holds m
\* leaves it with m + n, and every document stored before is still there
\* with its content.
C8_AddAppends ==
    [][ \A agent_id \in AgentIds, tag \in Tags, n \in BatchSizes :
          (AddDocumentsToAgent(agent_id, RequestDocuments(tag, n)) /\ Registered(agent_id)) =>
            /\ Count(Collection(agent_id)') = Count(Collection(agent_id)) + n
            /\ \A e \in Collection(agent_id) :
                  \E f \in Collection(agent_id)' : f.document = e.document ]_vars

----------------------------------------------------------------------------
(* C9 *)

\* C9: add_documents of the empty list completes with the success result
\* and leaves the number and the content of the stored documents unchanged.
C9_AddEmpty ==
    [][ \A agent_id \in AgentIds :
          (AddDocumentsToAgent(agent_id, <<>>) /\ Registered(agent_id)) =>
            /\ result' = [agent_id |-> agent_id, documents_added |-> 0, status |-> "success"]
            /\ Count(Collection(agent_id)') = Count(Collection(agent_id))
            /\ store' = store ]_vars

\* an empty batch has been added to an agent that holds documents
C9_Witness ==
    /\ IsAddResult(result)
    /\ result.documents_added = 0
    /\ result.status = "success"
    /\ Collection(result.agent_id) # {}

----------------------------------------------------------------------------
(* C10 *)

\* C10: what retrieve returns holds at most k = 5 documents, each of them a
\* document of the asked agent's own collection, and is the empty list when
\* that collection is empty.
C10_Retrieve ==
    IsDocumentsResult(result) =>
        /\ Len(result.documents) <= K
        /\ \A i \in 1..Len(result.documents) :
              \E e \in Collection(result.agent_id) :
                  /\ e.document.page_content = result.documents[i].content
                  /\ e.document.metadata = result.documents[i].metadata
        /\ (Collection(result.agent_id) = {} => result.documents = <<>>)

\* a retrieval on a collection of more than k documents has returned k
C10_Witness ==
    /\ IsDocumentsResult(result)
    /\ Len(result.documents) = K
    /\ Count(Collection(result.agent_id)) > K

\* a retrieval on an empty collection has returned the empty list
C10_EmptyReached ==
    /\ IsDocumentsResult(result)
    /\ Collection(result.agent_id) = {}
    /\ result.documents = <<>>

----------------------------------------------------------------------------
(* C12 *)

\* C12: a create of an id that is not registered (never created, or deleted
\* since) starts with an empty collection: nothing ingested under the id
\* before its delete is stored, and a retrieval can only return nothing.
C12_FreshLifecycle ==
    [][ \A req \in CreateRequests :
          (CreateAgent(req) /\ ~Registered(req.agent_id)) =>
            /\ Collection(req.agent_id)' = {}
            /\ SearchResults(Collection(req.agent_id)', K) = {{}} ]_vars

\* "restaurant" has been deleted and created again (it now follows finance
\* in the map) and its collection is empty
C12_Witness ==
    /\ HasStatus(result, "created")
    /\ result.agent_id = "restaurant"
    /\ Keys(agents) = <<"finance", "restaurant">>
    /\ Collection("restaurant") = {}
    /\ Collection("finance") # {}

----------------------------------------------------------------------------
(* C15 *)

\* C15: every key of the map is the agent_id of the agent stored under it,
\* no two registered agents have the same agent_id, and no two use the same
\* storage directory.
C15_UniqueIds ==
    /\ \A i \in 1..Len(agents) :
          /\ agents[i].key = agents[i].agent.config.agent_id
          /\ agents[i].agent.db_location = "./agents_db/" \o agents[i].key
    /\ \A i, j \in 1..Len(agents) :
          i # j =>
            /\ agents[i].agent.config.agent_id # agents[j].agent.config.agent_id
            /\ agents[i].agent.db_location # agents[j].agent.db_location

\* "restaurant" has been created again while it and finance were registered
C15_Witness ==
    /\ HasStatus(result, "created")
    /\ result.agent_id = "restaurant"
    /\ result.model = "m1"
    /\ Keys(agents) = <<"restaurant", "finance">>

----------------------------------------------------------------------------
(* C11 *)

IsAskAllResult(r) == "total_agents" \in DOMAIN r

IsErrorEntry(r) == DOMAIN r = {"error", "agent_id", "agent_name"}

IsAnswer(r) == "answer" \in DOMAIN r

\* C11: the fan-out returns total_agents equal to the number of agents
\* registered when it is called and one entry per registered agent, in the
\* registry's order; the entry of an agent whose model call raised is the
\* error entry (error, agent_id, agent_name) carrying what was raised, and
\* the entry of every other agent is that agent's answer.
C11_FanOut ==
    [][ IsAskAllResult(result') =>
          /\ response' = Ok(result')
          /\ result'.total_agents = Len(agents)
          /\ Len(result'.responses) = Len(agents)
          /\ Len(invocations') = 2 * Len(agents)
          /\ \A i \in 1..Len(agents) :
                LET entry == result'.responses[i]
                    llm   == invocations'[2 * i]
                IN  /\ entry.key = agents[i].key
                    /\ entry.response.agent_id = agents[i].key
                    /\ entry.response.agent_name = agents[i].agent.config.name
                    /\ llm.call = "llm"
                    /\ llm.model = agents[i].agent.config.model
                    /\ IF llm.raised # NoFault
                       THEN /\ IsErrorEntry(entry.response)
                            /\ entry.response.error = llm.raised
                       ELSE /\ IsAnswer(entry.response)
                            /\ entry.response.question = result'.question ]_vars

\* a fan-out over two agents has returned one error entry and one answer
C11_Witness ==
    /\ IsAskAllResult(result)
    /\ result.total_agents = 2
    /\ Len(agents) = 2
    /\ \E i, j \in 1..2 :
          /\ IsErrorEntry(result.responses[i].response)
          /\ IsAnswer(result.responses[j].response)

----------------------------------------------------------------------------
(* C20 *)

\* C20: answer and retrieve change neither the registry map, nor the config
\* file, nor the directories, nor any agent's store.  answer makes one
\* vector-store query and then one language-model call on what the query
\* returned, and its relevant_documents are the documents of that query, the
\* empty list when the query returned none; retrieve makes the one query and
\* returns its documents.
C20_ReadOnly ==
    [][ /\ (IsAnswer(result') \/ Raised(result') \/ IsDocumentsResult(result')) =>
              UNCHANGED <<agents, configFile, dirs, store>>
        /\ (IsAnswer(result') \/ Raised(result')) =>
              /\ Len(invocations') = 2
              /\ invocations'[1].call = "retriever"
              /\ invocations'[2].call = "llm"
              /\ invocations'[2].hits = invocations'[1].hits
              /\ Raised(result') <=> invocations'[2].raised # NoFault
        /\ IsAnswer(result') =>
              /\ invocations'[1].db_location = DbLocation(result'.agent_id)
              /\ invocations'[1].hits \subseteq Collection(result'.agent_id)
              /\ result'.relevant_documents = RelevantDocuments(invocations'[1].hits)
              /\ (invocations'[1].hits = {} <=> result'.relevant_documents = <<>>)
        /\ IsDocumentsResult(result') =>
              /\ Len(invocations') = 1
              /\ invocations'[1].call = "retriever"
              /\ invocations'[1].db_location = DbLocation(result'.agent_id)
              /\ result'.documents = RelevantDocuments(invocations'[1].hits) ]_vars

\* an answer has been given on the documents its one query returned
C20_Witness ==
    /\ IsAnswer(result)
    /\ response = Ok(result)
    /\ Len(invocations) = 2
    /\ Len(result.relevant_documents) = K
    /\ Count(Collection(result.agent_id)) > K

\* an answer has been given on an empty context
C20_EmptyReached ==
    /\ IsAnswer(result)
    /\ Len(invocations) = 2
    /\ invocations[1].hits = {}
    /\ result.relevant_documents = <<>>

----------------------------------------------------------------------------
(* C16 *)

\* the agent-scoped operations on one agent_id; the upload with every kind
\* of file and ingestion failure
AgentScoped(agent_id) ==
    \/ ApiDeleteAgent(agent_id)
    \/ \E question \in Questions, fault \in LlmFaults :
            ApiAskAgent(agent_id, question, fault)
    \/ \E question \in Questions : ApiGetAgentDocuments(agent_id, question)
    \/ \E n \in BatchSizes : ApiAddDocumentsToAgent(agent_id, RequestDocuments("t1", n))
    \/ \E file \in CsvFiles, fault \in IngestFaults :
            ApiUploadCsv(agent_id, "Title", "Text", NoStr, file, fault)

\* C16: ask, documents, documents/add, upload-csv and delete on an agent_id
\* that is not registered answer with status 404 and leave the registry, the
\* config file, the directories and every store as they were.
C16_NotFound ==
    [][ \A agent_id \in RequestIds :
          (~Registered(agent_id) /\ AgentScoped(agent_id)) =>
            /\ response'.status_code = 404
            /\ UNCHANGED <<agents, configFile, dirs, store>> ]_vars

\* an operation on an id deleted before has been answered with 404 while
\* another agent is registered and holds documents
C16_Witness ==
    /\ result = NotFound("finance")
    /\ response = HTTPException(404, result.error)
    /\ ~Registered("finance")
    /\ DbLocation("finance") \notin dirs
    /\ Registered("restaurant")
    /\ Collection("restaurant") # {}

----------------------------------------------------------------------------
(* C17, C18, C19: the CSV upload *)

\* client c has the response of an upload
UploadReturned(x) == x.state = "returned" /\ x.request.op = "upload_csv"

\* the id add_documents gives the document of row i
RowId(agent_id, i) == agent_id \o "_" \o ToString(i - 1)

\* C18: an upload that succeeds stores exactly one document per row of the
\* file, the document of row i under the i-th id of the batch; its content is
\* "<title> <content>" when the title column differs from the content column
\* and the content cell alone when they are the same column; its metadata
\* holds exactly the requested metadata columns that the row has, and the
\* requested columns the row lacks are left out without an error.  Entries
\* under other ids stay as they were.
C18_OneDocumentPerRow ==
    [][ (UploadReturned(inflight'["c1"]) /\ inflight'["c1"].response.status_code = 200) =>
          LET req   == inflight'["c1"].request
              rows  == req.file.rows
              cols  == MetadataColList(req.metadata_cols)
              ids   == { RowId(req.agent_id, i) : i \in 1..Len(rows) }
              col   == store'[DbLocation(req.agent_id)]
          IN  /\ \A i \in 1..Len(rows) :
                    \E e \in col :
                        /\ e.id = RowId(req.agent_id, i)
                        /\ e.document.page_content =
                              IF req.title_col # req.content_col
                              THEN rows[i][req.title_col] \o " " \o rows[i][req.content_col]
                              ELSE rows[i][req.content_col]
                        /\ DOMAIN e.document.metadata = Range(cols) \cap DOMAIN rows[i]
                        /\ \A c \in DOMAIN e.document.metadata :
                              e.document.metadata[c] = rows[i][c]
              /\ Cardinality({ e \in col : e.id \in ids }) = Len(rows)
              /\ { e \in col : e.id \notin ids }
                   = { e \in Collection(req.agent_id) : e.id \notin ids } ]_vars

\* an upload of a file with two rows, asking for a metadata column the
\* file has and one it lacks, has stored its two documents
C18_Witness ==
    /\ UploadReturned(inflight["c1"])
    /\ inflight["c1"].response.status_code = 200
    /\ inflight["c1"].request.file = GoodCsv
    /\ inflight["c1"].request.title_col = "Title"
    /\ inflight["c1"].request.content_col = "Text"
    /\ inflight["c1"].request.metadata_cols = Str("Rating, Absent")
    /\ \E e \in Collection(inflight["c1"].request.agent_id) :
          /\ e.document.page_content = "Fees Rates rose"
          /\ DOMAIN e.document.metadata = {"Rating"}

\* an upload with the same column as title and content has stored the
\* content cell alone
C18_SameColumnReached ==
    /\ UploadReturned(inflight["c1"])
    /\ inflight["c1"].response.status_code = 200
    /\ inflight["c1"].request.title_col = inflight["c1"].request.content_col
    /\ \E e \in Collection(inflight["c1"].request.agent_id) :
          e.document.page_content = "Fees"

\* the title or content column an upload asks for and its file lacks
LackedColumns(req) == {req.title_col, req.content_col} \ req.file.columns

\* C19: an upload to a registered agent of a readable file that lacks the
\* requested title or content column fails with an error that names a
\* missing column, also when the file has no rows, and adds nothing to the
\* store.
C19_MissingColumnFails ==
    [][ ( /\ UploadReturned(inflight'["c1"])
          /\ Registered(inflight'["c1"].request.agent_id)
          /\ inflight'["c1"].request.file.readable
          /\ LackedColumns(inflight'["c1"].request) # {} ) =>
          /\ "error" \in DOMAIN result'
          /\ \E c \in LackedColumns(inflight'["c1"].request) :
                Contains(result'.error, KeyError(c))
          /\ store' = store ]_vars

\* an upload of a file with rows that lacks the requested column has
\* failed with an error naming the column
C19_RowsReached ==
    /\ UploadReturned(inflight["c1"])
    /\ Registered(inflight["c1"].request.agent_id)
    /\ inflight["c1"].request.file = GoodCsv
    /\ inflight["c1"].request.title_col = "Missing"
    /\ result = [ error |-> "Failed to add CSV: 'Missing'" ]
    /\ inflight["c1"].response.status_code = 400

\* the upload's input is malformed: the file cannot be read, or a row lacks
\* the requested title or content column
Malformed(req) ==
    \/ ~req.file.readable
    \/ MissingColumn(req.file, req.title_col, req.content_col) # NoStr

\* C17: an upload is answered with 404 only when the agent is not
\* registered and with 400 only when its input is malformed, and an upload
\* of well-formed input to a registered agent whose ingestion meets a failure
\* of the embedding or vector-store service is answered with 500.
C17_UploadStatus ==
    [][ UploadReturned(inflight'["c1"]) =>
          LET req  == inflight'["c1"].request
              code == inflight'["c1"].response.status_code
          IN  /\ code = 404 => ~Registered(req.agent_id)
              /\ code = 400 => Malformed(req)
              /\ (Registered(req.agent_id) /\ ~Malformed(req) /\ req.fault # NoFault)
                    => code = 500 ]_vars

----------------------------------------------------------------------------
(* C13, C14: two requests in flight together *)

RegistryMutation(req) == req.op \in {"create", "delete"}

\* the id a create or delete request is about
MutatedId(req) == IF req.op = "create" THEN req.body.agent_id ELSE req.agent_id

BothReturned == \A c \in Clients : inflight[c].state = "returned"

\* two registry mutations on distinct ids arrived together and both have
\* returned
ConcurrentMutations ==
    /\ BothReturned
    /\ \A c \in Clients : RegistryMutation(inflight[c].request)
    /\ MutatedId(inflight["c1"].request) # MutatedId(inflight["c2"].request)

BatchEntries(col, req1, req2) ==
    { e \in col : \E d \in Range(req1.documents) \cup Range(req2.documents) :
                      e.document.page_content = d.content }

\* C14: when two batches for the same agent arrived together, the handler
\* that runs second stores its documents under the ids the first batch got:
\* every document of the first batch at a position the second batch also
\* has is gone, and the store holds of the two batches only as many
\* documents as the larger one has, fewer than the two have together.
C14_Overwrite ==
    [][ \A c, o \in Clients :
          ( /\ c # o
            /\ inflight[c].state = "pending"
            /\ inflight'[c].state = "returned"
            /\ inflight[o].state = "returned"
            /\ inflight[c].request.op = "add"
            /\ inflight[o].request.op = "add"
            /\ inflight[c].request.agent_id = inflight[o].request.agent_id
            /\ inflight[o].response.status_code = 200
            /\ inflight'[c].response.status_code = 200 ) =>
            LET agent_id == inflight[c].request.agent_id
                mine     == inflight[c].request.documents
                theirs   == inflight[o].request.documents
                col      == Collection(agent_id)'
            IN  /\ Count(col) = Max(Count(Collection(agent_id)), Len(mine))
                /\ \A i \in 1..Min(Len(mine), Len(theirs)) :
                      /\ [ id |-> RowId(agent_id, i),
                           document |-> Document(theirs[i].content, theirs[i].metadata) ]
                            \notin col
                      /\ [ id |-> RowId(agent_id, i),
                           document |-> Document(mine[i].content, mine[i].metadata) ]
                            \in col
                /\ Cardinality(BatchEntries(col, inflight[c].request, inflight[o].request))
                     = Max(Len(mine), Len(theirs))
                /\ Max(Len(mine), Len(theirs)) < Len(mine) + Len(theirs) ]_vars

\* two batches for one agent arrived together, both were stored with
\* success, and the collection holds fewer documents than the two batches
\* have together
C14_Witness ==
    /\ BothReturned
    /\ \A c \in Clients :
          /\ inflight[c].request.op = "add"
          /\ inflight[c].request.agent_id = "finance"
          /\ inflight[c].response.status_code = 200
    /\ Count(Collection("finance"))
         < Len(inflight["c1"].request.documents) + Len(inflight["c2"].request.documents)

----------------------------------------------------------------------------
(* C21 *)

\* C21: a reload of the registry from an existing config file changes no
\* agent's document store: every collection holds after the reload the
\* entries, ids and contents, it held before, and so as many; this holds for
\* every restart, however many came before.
C21_ReloadKeepsStores ==
    [][ (Restart /\ configFile.exists) =>
          \A agent_id \in RequestIds :
              /\ Collection(agent_id)' = Collection(agent_id)
              /\ Count(Collection(agent_id)') = Count(Collection(agent_id))
              /\ (Registered(agent_id)' =>
                    GetAgent(agents', agent_id).db_location = DbLocation(agent_id)) ]_vars

\* a restart has reloaded two agents, one with more than k stored documents
\* and one with an empty collection
C21_Witness ==
    /\ result = None
    /\ Len(agents) = 2
    /\ Count(Collection("restaurant")) > K
    /\ Collection("finance") = {}
    /\ DbLocation("finance") \in dirs

----------------------------------------------------------------------------
(* C22 *)

IsListResult(r) == "agents" \in DOMAIN r

\* C22: list() returns one entry per registered agent, in the order of the
\* map, each under the agent's id and with the agent's name, description and
\* model and nothing else, and changes nothing; an agent created with the
\* model m1 is listed with the model m1.
C22_List ==
    [][ IsListResult(result') =>
          /\ UNCHANGED <<agents, configFile, dirs, store>>
          /\ response' = Ok(result')
          /\ Len(result'.agents) = Len(agents)
          /\ \A i \in 1..Len(agents) :
                /\ DOMAIN result'.agents[i] = {"agent_id", "name", "description", "model"}
                /\ result'.agents[i].agent_id = agents[i].key
                /\ result'.agents[i].name = agents[i].agent.config.name
                /\ result'.agents[i].description = agents[i].agent.config.description
                /\ result'.agents[i].model = agents[i].agent.config.model
          /\ \A i \in 1..Len(configFile.configs) :
                result'.agents[i].model = configFile.configs[i].model ]_vars

\* list() has returned two entries, the second the agent finance that was
\* created with the model m1
C22_Witness ==
    /\ IsListResult(result)
    /\ Len(result.agents) = 2
    /\ result.agents[1].agent_id = "restaurant"
    /\ result.agents[2].agent_id = "finance"
    /\ result.agents[2].model = "m1"
    /\ result.agents[2].name = "Advisor"

----------------------------------------------------------------------------
(* C23 *)

\* C23: get(agent_id) raises for no id: for a registered id it returns the
\* agent registered under it, whose config carries that id, and for every
\* other id the not-found value None.  It is a lookup and assigns nothing.
C23_GetNeverRaises ==
    \A agent_id \in RequestIds :
        LET agent == GetAgent(agents, agent_id)
        IN  /\ "raised" \notin DOMAIN agent
            /\ IF Registered(agent_id)
               THEN /\ agent # None
                    /\ agent.config.agent_id = agent_id
                    /\ agent.db_location = DbLocation(agent_id)
                    /\ \E i \in 1..Len(agents) :
                          agents[i].key = agent_id /\ agents[i].agent = agent
                    /\ Cardinality({ i \in 1..Len(agents) : agents[i].key = agent_id }) = 1
               ELSE agent = None

\* a request for an id that is not registered has been answered from the
\* not-found value while an agent created with the model m1 is registered
C23_Witness ==
    /\ result = NotFound(UnknownId)
    /\ GetAgent(agents, UnknownId) = None
    /\ Registered("finance")
    /\ GetAgent(agents, "finance").config.model = "m1"
    /\ ~Registered("restaurant")
    /\ GetAgent(agents, "restaurant") = None

----------------------------------------------------------------------------
(* C25 *)

\* C25: the default agent is created only when there is no config file.
\* The file exists from the first start on, so once every agent has been
\* deleted it holds the empty list; a restart then yields the empty registry
\* and writes nothing, and no restart registers "restaurant" when the file
\* does not list it.
C25_NoDefaultAfterDelete ==
    /\ [](configFile.exists /\ (agents = <<>> => configFile.configs = <<>>))
    /\ [][ Restart =>
              /\ (agents = <<>> => agents' = <<>> /\ configFile' = configFile)
              /\ (~Registered("restaurant") => ~Registered("restaurant")')
              /\ (Registered("restaurant")' =>
                    \E i \in 1..Len(configFile.configs) :
                        configFile.configs[i].agent_id = "restaurant") ]_vars

\* a restart has loaded the empty list: no agent is registered and the
\* default agent's directory is gone
C25_Witness ==
    /\ result = None
    /\ agents = <<>>
    /\ configFile.exists
    /\ configFile.configs = <<>>
    /\ DbLocation("restaurant") \notin dirs

----------------------------------------------------------------------------
(* C27 *)

\* C27: a create under an id that is registered keeps the id's storage
\* directory and what is stored there: the agent that replaces the old one
\* works on the same location, the collection holds the documents ingested
\* before, and as many agents are registered as before.
C27_RecreateKeepsDocuments ==
    [][ \A req \in CreateRequests :
          (CreateAgent(req) /\ Registered(req.agent_id)) =>
            /\ Collection(req.agent_id)' = Collection(req.agent_id)
            /\ GetAgent(agents', req.agent_id).db_location
                 = GetAgent(agents, req.agent_id).db_location
            /\ GetAgent(agents', req.agent_id).config.collection_name
                 = GetAgent(agents, req.agent_id).config.collection_name
            /\ DbLocation(req.agent_id) \in dirs'
            /\ Len(agents') = Len(agents)
            /\ Keys(agents') = Keys(agents)
            /\ GetAgent(agents', req.agent_id).config.name = req.name ]_vars

\* finance has been created a second time, now with the model m1, over a
\* collection of more than k documents, which it still holds
C27_Witness ==
    /\ HasStatus(result, "created")
    /\ result.agent_id = "finance"
    /\ result.model = "m1"
    /\ Keys(agents) = <<"restaurant", "finance">>
    /\ Count(Collection("finance")) > K
    /\ \E e \in Collection("finance") : e.document.page_content = "t2-5"

----------------------------------------------------------------------------
(* C24, C26: the legacy endpoints *)

IsLegacyAnswer(r) == "relevant_reviews" \in DOMAIN r

IsLegacyReviews(r) == "reviews" \in DOMAIN r

\* C24: whatever agents are registered, /ask and /reviews work on the agent
\* registered as "restaurant": while it is registered, what /ask returns is
\* an answer of that agent to the question with relevant_documents under the
\* name relevant_reviews, what /reviews returns are the documents of a
\* retrieve of that agent, and the calls made are that agent's.
C24_LegacyRedirect ==
    [][ Registered("restaurant") =>
          /\ IsLegacyAnswer(result') =>
                /\ DOMAIN result' = {"question", "answer", "relevant_reviews"}
                /\ response' = Ok(result')
                /\ \E out \in AskAgentOutcomes(agents, store, "restaurant",
                                                result'.question, NoFault) :
                      /\ out.result.agent_id = "restaurant"
                      /\ result'.answer = out.result.answer
                      /\ result'.relevant_reviews = out.result.relevant_documents
                      /\ invocations' = out.invocations
          /\ IsLegacyReviews(result') =>
                /\ response' = Ok(result')
                /\ \E question \in Questions :
                   \E out \in GetRelevantDocumentsOutcomes(agents, store, "restaurant",
                                                           question) :
                      /\ out.result.agent_id = "restaurant"
                      /\ result'.reviews = out.result.documents
                      /\ invocations' = out.invocations
          /\ \A i \in 1..Len(invocations') :
                invocations'[i].call = "retriever" =>
                    invocations'[i].db_location = DbLocation("restaurant") ]_vars

\* /ask has answered from the documents of restaurant while finance is
\* registered before it and holds more documents
C24_Witness ==
    /\ IsLegacyAnswer(result)
    /\ Keys(agents) = <<"finance", "restaurant">>
    /\ Len(invocations) = 2
    /\ invocations[1].db_location = DbLocation("restaurant")
    /\ Len(result.relevant_reviews) = Count(Collection("restaurant"))
    /\ Count(Collection("restaurant")) = SmallBatch
    /\ Count(Collection("finance")) > K

\* C26: while "restaurant" is not registered the legacy operations report
\* no not-found: /reviews returns the empty list and /ask a normal result
\* whose answer starts with "Error: " and whose relevant_reviews is empty;
\* both reply with status 200, call neither store nor model and change
\* nothing.
C26_LegacyNotFound ==
    [][ \A question \in Questions, fault \in LlmFaults :
          ( /\ ~Registered("restaurant")
            /\ ApiLegacyAsk(question, fault) \/ ApiLegacyReviews(question) ) =>
            /\ response'.status_code = 200
            /\ response'.body = result'
            /\ invocations' = <<>>
            /\ UNCHANGED <<agents, configFile, dirs, store>>
            /\ IsLegacyAnswer(result') \/ IsLegacyReviews(result')
            /\ IsLegacyAnswer(result') =>
                  /\ SubSeq(result'.answer, 1, 7) = "Error: "
                  /\ result'.answer = "Error: Agent restaurant not found"
                  /\ result'.question = question
                  /\ result'.relevant_reviews = <<>>
            /\ IsLegacyReviews(result') => result'.reviews = <<>> ]_vars

\* /ask has replied 200 with the error text while restaurant is deleted
\* and another agent holds documents
C26_Witness ==
    /\ IsLegacyAnswer(result)
    /\ result.answer = "Error: Agent restaurant not found"
    /\ response = Ok(result)
    /\ ~Registered("restaurant")
    /\ Registered("finance")
    /\ Collection("finance") # {}

\* /reviews has replied 200 with the empty list while restaurant is deleted
C26_ReviewsReached ==
    /\ IsLegacyReviews(result)
    /\ result.reviews = <<>>
    /\ response = Ok(result)
    /\ ~Registered("restaurant")
    /\ Collection("finance") # {}

----------------------------------------------------------------------------
(* C28 *)

\* the config file lists agent_id
Listed(file, agent_id) ==
    \E i \in 1..Len(file.configs) : file.configs[i].agent_id = agent_id

\* C28: a delete of a registered agent removes the storage first, then
\* evicts the agent, then saves.  When removing the storage directory fails
\* the agent is still registered and the config file unchanged; when the
\* save fails the map no longer holds the id while the config file still
\* lists it.
C28_DeleteOrder ==
    [][ \A agent_id \in AgentIds, fault \in DeleteFaults, partial \in BOOLEAN :
          ApiDeleteAgentFailing(agent_id, fault, partial) =>
            /\ response'.status_code = 500
            /\ IF fault = "rmtree failed"
               THEN /\ agents' = agents
                    /\ configFile' = configFile
               ELSE /\ ~Registered(agent_id)'
                    /\ DbLocation(agent_id) \notin dirs'
                    /\ Listed(configFile', agent_id) ]_vars

\* a delete whose save could not open the file has left the agent out of
\* the map and in the file
C28_OpenFailureReached ==
    /\ Raised(result)
    /\ result.raised = "open failed"
    /\ ~Registered("finance")
    /\ Listed(configFile, "finance")
    /\ DbLocation("finance") \notin dirs

\* a delete whose removal of the directory failed has left the agent
\* registered and listed
C28_RmtreeFailureReached ==
    /\ Raised(result)
    /\ result.raised = "rmtree failed"
    /\ Registered("finance")
    /\ Listed(configFile, "finance")
    /\ DbLocation("finance") \in dirs

----------------------------------------------------------------------------
(* C29 *)

\* C29: the temporary file the upload handler writes is removed before the
\* request completes, on every outcome (200, 404, 400 and 500): no
\* returned upload leaves its staged file behind.
C29_TempFileRemoved ==
    [][ \A c \in Clients :
          (inflight[c].state = "reading" /\ inflight'[c].state = "returned") =>
             inflight[c].temp_path \notin tempFiles' ]_vars

\* an upload answered 500 by a failed staging, its file still there
C29_LeakReached ==
    /\ inflight["c1"].state = "returned"
    /\ inflight["c1"].request.op = "upload_csv"
    /\ inflight["c1"].response.status_code = 500
    /\ tempFiles # {}

\* the outcomes of the inner try leave no file: an upload answered 200,
\* 404 or 400 on a temporary directory that held its file only
C29_RemovedReached ==
    /\ inflight["c1"].state = "returned"
    /\ inflight["c1"].request.op = "upload_csv"
    /\ inflight["c1"].response.status_code = 404
    /\ tempFiles = {}

====
